---- MODULE Spec2Model ----
(***************************************************************************)
(* The cluster plan document engine of kismatic (pkg/install/plan.go):     *)
(* the template builder, the password generator, the annotated writer and  *)
(* the Read pipeline (deprecated-field migration, then defaults).          *)
(*                                                                         *)
(* Encodings.  A Go pointer is a sequence of length at most one: <<>> is   *)
(* nil and <<v>> points to v.  A Go string that the code only compares or  *)
(* copies is a TLA+ string; a password is the sequence of its characters;  *)
(* the registry server string "<address>:<port>" is the pair               *)
(* <<address, port>> and <<>> is the empty string.                         *)
(***************************************************************************)
EXTENDS Integers, Sequences, FiniteSets, TLC

VARIABLES pc, opts, attempts, requests, pass, err, built, bytez, file, annotated,
          doc, plan, registry, scan, pos, handle, outputs, check, result,
          cmd, invoked, network

vars == <<pc, opts, attempts, requests, pass, err, built, bytez, file, annotated,
          doc, plan, registry, scan, pos, handle, outputs, check, result,
          cmd, invoked, network>>

\* The state of a Write under way, and of a package check.
scanVars == <<registry, scan, pos, handle, outputs>>
checkVars == <<check, result>>
\* The state of a run of the apply command.
applyVars == <<cmd, invoked, network>>

\* ------------------------------------------------------------------ bounds
\* Largest number of nodes, all roles together, in the template options.
MaxNodes == 2
\* Largest number of NFS volumes in the template options.
MaxVolumes == 2
\* Longest password candidate the generator hands back.
MaxPwLen == 1
\* Longest text, in lines, given to Write line by line.
MaxLines == 4
\* Most calls of Write on one text.
MaxWrites == 2

\* --------------------------------------------------------------- constants
ket133PackageManagerProvider == "helm"
defaultCAExpiry == "17520h"
cniProviderCalico == "calico"
heapsterInfluxSink == "influxdb:http://heapster-influxdb.kube-system.svc:8086"

Nil == <<>>
Ptr(v) == <<v>>

\* ------------------------------------------------------------ the document
\* The zero value of the types the plan is made of.
ZeroNode == [Host |-> "", IP |-> "", InternalIP |-> ""]
ZeroNodeGroup == [ExpectedCount |-> 0, Nodes |-> <<>>]
ZeroCNI ==
  [Provider |-> "",
   Options |-> [Calico |-> [Mode |-> "", LogLevel |-> "",
                            WorkloadMTU |-> 0, FelixInputMTU |-> 0]]]
ZeroHeapsterMonitoring ==
  [Options |-> [Heapster |-> [Replicas |-> 0, ServiceType |-> "", Sink |-> ""],
                HeapsterReplicas |-> 0,
                InfluxDB |-> [PVCName |-> ""],
                InfluxDBPVCName |-> ""]]
ZeroDashboard == [Disable |-> FALSE]

\* Plan{}
ZeroPlan ==
  [Cluster |->
     [Name |-> "",
      AdminPassword |-> <<>>,
      DisablePackageInstallation |-> FALSE,
      AllowPackageInstallation |-> Nil,
      DisconnectedInstallation |-> FALSE,
      Networking |-> [Type |-> "", PodCIDRBlock |-> "", ServiceCIDRBlock |-> "",
                      UpdateHostsFiles |-> FALSE],
      Certificates |-> [Expiry |-> "", CAExpiry |-> ""],
      SSH |-> [User |-> "", Key |-> "", Port |-> 0]],
   DockerRegistry |-> [Server |-> <<>>, Address |-> "", Port |-> 0],
   AddOns |->
     [CNI |-> Nil,
      DNS |-> [Provider |-> ""],
      HeapsterMonitoring |-> Nil,
      PackageManager |-> [Disable |-> FALSE, Provider |-> ""],
      Dashboard |-> Nil,
      DashboardDeprecated |-> Nil],
   Features |-> Nil,
   Etcd |-> ZeroNodeGroup,
   Master |-> ZeroNodeGroup,
   Worker |-> ZeroNodeGroup,
   Ingress |-> ZeroNodeGroup,
   Storage |-> ZeroNodeGroup,
   NFS |-> [Volumes |-> <<>>]]


\* A slip: the legacy block is read only where the current one is unset.
MigratePackageManagerIfUnset(p) ==
  IF p.Features # Nil /\ p.Features[1].PackageManager # Nil
     /\ p.AddOns.PackageManager = [Disable |-> FALSE, Provider |-> ""]
  THEN [p EXCEPT !.AddOns.PackageManager.Disable =
                     ~ p.Features[1].PackageManager[1].Enabled,
                 !.AddOns.PackageManager.Provider = ket133PackageManagerProvider]
  ELSE p

\* ------------------------------------------------------ readDeprecatedFields
\* features.package_manager moved to add_ons.package_manager after v1.3.3.
MigratePackageManager(p) ==
  IF p.Features # Nil /\ p.Features[1].PackageManager # Nil
  THEN [p EXCEPT !.AddOns.PackageManager.Disable =
                     ~ p.Features[1].PackageManager[1].Enabled,
                 !.AddOns.PackageManager.Provider = ket133PackageManagerProvider]
  ELSE p

\* allow_package_installation renamed to disable_package_installation.
MigrateAllowPackageInstallation(p) ==
  IF p.Cluster.AllowPackageInstallation # Nil
  THEN [p EXCEPT !.Cluster.DisablePackageInstallation =
                     ~ p.Cluster.AllowPackageInstallation[1]]
  ELSE p

\* The deprecated dashboard block is read only if the new one is not set.
\* A slip: the deprecated dashboard field is read whenever it is present.
MigrateDashboardAlways(p) ==
  IF p.AddOns.DashboardDeprecated # Nil
  THEN [p EXCEPT !.AddOns.Dashboard =
                     Ptr([Disable |-> p.AddOns.DashboardDeprecated[1].Disable])]
  ELSE p

MigrateDashboard(p) ==
  IF p.AddOns.DashboardDeprecated # Nil /\ p.AddOns.Dashboard = Nil
  THEN [p EXCEPT !.AddOns.Dashboard =
                     Ptr([Disable |-> p.AddOns.DashboardDeprecated[1].Disable])]
  ELSE p

\* fmt.Sprintf("%s:%d", address, port)
SprintfServer(address, port) == <<address, port>>

\* A slip: the legacy pair is read also when a server is set.
MigrateRegistryAlways(p) ==
  IF p.DockerRegistry.Address # "" /\ p.DockerRegistry.Port # 0
  THEN [p EXCEPT !.DockerRegistry.Server =
                     SprintfServer(p.DockerRegistry.Address, p.DockerRegistry.Port)]
  ELSE p

MigrateRegistry(p) ==
  IF p.DockerRegistry.Server = <<>> /\ p.DockerRegistry.Address # ""
     /\ p.DockerRegistry.Port # 0
  THEN [p EXCEPT !.DockerRegistry.Server =
                     SprintfServer(p.DockerRegistry.Address, p.DockerRegistry.Port)]
  ELSE p

readDeprecatedFields(p) ==
  MigrateRegistry(MigrateDashboard(MigrateAllowPackageInstallation(
    MigratePackageManager(p))))

\* --------------------------------------------------------------- setDefaults
DefaultCNI(p) ==
  IF p.AddOns.CNI = Nil
  THEN LET mode == IF p.Cluster.Networking.Type # ""
                   THEN p.Cluster.Networking.Type ELSE "overlay"
       IN [p EXCEPT !.AddOns.CNI =
             Ptr([ZeroCNI EXCEPT !.Provider = cniProviderCalico,
                                 !.Options.Calico.Mode = mode,
                                 !.Options.Calico.LogLevel = "info"])]
  ELSE p


\* A slip: the two MTU defaults the wrong way round.
DefaultCalicoOptionsSwapped(p) ==
  LET c0 == p.AddOns.CNI[1]
      c1 == IF c0.Options.Calico.LogLevel = ""
            THEN [c0 EXCEPT !.Options.Calico.LogLevel = "info"] ELSE c0
      c2 == IF c1.Options.Calico.FelixInputMTU = 0
            THEN [c1 EXCEPT !.Options.Calico.FelixInputMTU = 1500] ELSE c1
      c3 == IF c2.Options.Calico.WorkloadMTU = 0
            THEN [c2 EXCEPT !.Options.Calico.WorkloadMTU = 1440] ELSE c2
  IN [p EXCEPT !.AddOns.CNI = Ptr(c3)]

DefaultCalicoOptions(p) ==
  LET c0 == p.AddOns.CNI[1]
      c1 == IF c0.Options.Calico.LogLevel = ""
            THEN [c0 EXCEPT !.Options.Calico.LogLevel = "info"] ELSE c0
      c2 == IF c1.Options.Calico.FelixInputMTU = 0
            THEN [c1 EXCEPT !.Options.Calico.FelixInputMTU = 1440] ELSE c1
      c3 == IF c2.Options.Calico.WorkloadMTU = 0
            THEN [c2 EXCEPT !.Options.Calico.WorkloadMTU = 1500] ELSE c2
  IN [p EXCEPT !.AddOns.CNI = Ptr(c3)]

DefaultDNS(p) ==
  IF p.AddOns.DNS.Provider = ""
  THEN [p EXCEPT !.AddOns.DNS.Provider = "kubedns"] ELSE p

\* A slip: the legacy replicas are read only where the structured field is
\* unset.
DefaultHeapsterUnsetOnly(p) ==
  LET h0 == IF p.AddOns.HeapsterMonitoring = Nil
            THEN ZeroHeapsterMonitoring ELSE p.AddOns.HeapsterMonitoring[1]
      h1 == IF h0.Options.Heapster.Replicas = 0
            THEN [h0 EXCEPT !.Options.Heapster.Replicas = 2] ELSE h0
      \* read field from KET < v1.5.0
      h2 == IF h1.Options.HeapsterReplicas # 0 /\ h0.Options.Heapster.Replicas = 0
            THEN [h1 EXCEPT !.Options.Heapster.Replicas = h1.Options.HeapsterReplicas]
            ELSE h1
      h3 == IF h2.Options.Heapster.Sink = ""
            THEN [h2 EXCEPT !.Options.Heapster.Sink = heapsterInfluxSink] ELSE h2
      h4 == IF h3.Options.Heapster.ServiceType = ""
            THEN [h3 EXCEPT !.Options.Heapster.ServiceType = "ClusterIP"] ELSE h3
      h5 == IF h4.Options.InfluxDBPVCName # ""
            THEN [h4 EXCEPT !.Options.InfluxDB.PVCName = h4.Options.InfluxDBPVCName]
            ELSE h4
  IN [p EXCEPT !.AddOns.HeapsterMonitoring = Ptr(h5)]

DefaultHeapster(p) ==
  LET h0 == IF p.AddOns.HeapsterMonitoring = Nil
            THEN ZeroHeapsterMonitoring ELSE p.AddOns.HeapsterMonitoring[1]
      h1 == IF h0.Options.Heapster.Replicas = 0
            THEN [h0 EXCEPT !.Options.Heapster.Replicas = 2] ELSE h0
      \* read field from KET < v1.5.0
      h2 == IF h1.Options.HeapsterReplicas # 0
            THEN [h1 EXCEPT !.Options.Heapster.Replicas = h1.Options.HeapsterReplicas]
            ELSE h1
      h3 == IF h2.Options.Heapster.Sink = ""
            THEN [h2 EXCEPT !.Options.Heapster.Sink = heapsterInfluxSink] ELSE h2
      h4 == IF h3.Options.Heapster.ServiceType = ""
            THEN [h3 EXCEPT !.Options.Heapster.ServiceType = "ClusterIP"] ELSE h3
      h5 == IF h4.Options.InfluxDBPVCName # ""
            THEN [h4 EXCEPT !.Options.InfluxDB.PVCName = h4.Options.InfluxDBPVCName]
            ELSE h4
  IN [p EXCEPT !.AddOns.HeapsterMonitoring = Ptr(h5)]

DefaultCAExpiry(p) ==
  IF p.Cluster.Certificates.CAExpiry = ""
  THEN [p EXCEPT !.Cluster.Certificates.CAExpiry = defaultCAExpiry] ELSE p

DefaultDashboard(p) ==
  IF p.AddOns.Dashboard = Nil
  THEN [p EXCEPT !.AddOns.Dashboard = Ptr(ZeroDashboard)] ELSE p

\* A slip: the defaults without the block that creates the CNI block.
setDefaultsWithoutCNI(p) ==
  DefaultDashboard(DefaultCAExpiry(DefaultHeapster(DefaultDNS(p))))

setDefaults(p) ==
  DefaultDashboard(DefaultCAExpiry(DefaultHeapster(DefaultDNS(
    DefaultCalicoOptions(DefaultCNI(p))))))

\* ---------------------------------------------- buildPlanFromTemplateOptions
\* n copies of v appended to an empty list.
Repeat(v, n) == [i \in 1..n |-> v]

NFSVolumePlaceholder == [Host |-> "", Path |-> "/"]


\* A slip: a loop that runs once too often.
TemplateNodeGroupOneMore(count) ==
  [ExpectedCount |-> count, Nodes |-> Repeat(ZeroNode, count + 1)]

TemplateNodeGroup(count) == [ExpectedCount |-> count, Nodes |-> Repeat(ZeroNode, count)]

TemplateCluster(templateOpts) ==
  [ZeroPlan.Cluster EXCEPT
     !.Name = "kubernetes",
     !.AdminPassword = templateOpts.AdminPassword,
     !.DisablePackageInstallation = FALSE,
     !.DisconnectedInstallation = FALSE,
     !.SSH = [User |-> "kismaticuser", Key |-> "kismaticuser.key", Port |-> 22],
     !.Networking.PodCIDRBlock = "172.16.0.0/16",
     !.Networking.ServiceCIDRBlock = "172.20.0.0/16",
     !.Networking.UpdateHostsFiles = FALSE,
     !.Certificates = [Expiry |-> "17520h", CAExpiry |-> defaultCAExpiry]]


\* A slip: the builder forgets the felix input MTU.
TemplateCNINoFelixMTU ==
  [ZeroCNI EXCEPT !.Provider = cniProviderCalico,
                  !.Options.Calico.Mode = "overlay",
                  !.Options.Calico.LogLevel = "info",
                  !.Options.Calico.WorkloadMTU = 1500]

TemplateCNI ==
  [ZeroCNI EXCEPT !.Provider = cniProviderCalico,
                  !.Options.Calico.Mode = "overlay",
                  !.Options.Calico.LogLevel = "info",
                  !.Options.Calico.WorkloadMTU = 1500,
                  !.Options.Calico.FelixInputMTU = 1440]

TemplateHeapster ==
  [ZeroHeapsterMonitoring EXCEPT
     !.Options.Heapster.Replicas = 2,
     !.Options.Heapster.ServiceType = "ClusterIP",
     !.Options.Heapster.Sink = heapsterInfluxSink]

TemplateAddOns ==
  [ZeroPlan.AddOns EXCEPT
     !.CNI = Ptr(TemplateCNI),
     !.DNS.Provider = "kubedns",
     !.HeapsterMonitoring = Ptr(TemplateHeapster),
     !.PackageManager.Provider = "helm",
     !.Dashboard = Ptr([Disable |-> FALSE])]

buildPlanFromTemplateOptions(templateOpts) ==
  [ZeroPlan EXCEPT
     !.Cluster = TemplateCluster(templateOpts),
     !.AddOns = TemplateAddOns,
     !.Etcd = TemplateNodeGroup(templateOpts.EtcdNodes),
     !.Master = TemplateNodeGroup(templateOpts.MasterNodes),
     !.Worker = TemplateNodeGroup(templateOpts.WorkerNodes),
     !.Ingress = TemplateNodeGroup(templateOpts.IngressNodes),
     !.Storage = TemplateNodeGroup(templateOpts.StorageNodes),
     !.NFS.Volumes = Repeat(NFSVolumePlaceholder, templateOpts.NFSVolumes)]

\* ----------------------------------------------- generateAlphaNumericPassword
LowerCase == {"a", "b", "c", "d", "e", "f", "g", "h", "i", "j", "k", "l", "m",
              "n", "o", "p", "q", "r", "s", "t", "u", "v", "w", "x", "y", "z"}
UpperCase == {"A", "B", "C", "D", "E", "F", "G", "H", "I", "J", "K", "L", "M",
              "N", "O", "P", "Q", "R", "S", "T", "U", "V", "W", "X", "Y", "Z"}

\* The character class of the validation pattern "^[a-zA-Z1-9]+$".
PasswordClass == LowerCase \cup UpperCase \cup {"1", "2", "3", "4", "5", "6", "7", "8", "9"}

\* re.MatchString(pass)
MatchesPasswordRE(candidate) ==
  /\ Len(candidate) >= 1
  /\ \A i \in 1..Len(candidate) : candidate[i] \in PasswordClass

\* The characters the modelled generator may put in a candidate: a lower-case
\* letter, an upper-case letter, the digit zero, another digit, punctuation.
CandidateChars == {"a", "Z", "0", "7", "!"}

Candidates == UNION {[1..n -> CandidateChars] : n \in 0..MaxPwLen}

\* ----------------------------------------------------------------- commentMap
\* The registry: dotted path (the sequence of its keys) -> comment lines.
commentMap ==
     (<<"cluster", "admin_password">> :> <<"This password is used to login to the Kubernetes Dashboard and can also be", "used for administration without a security certificate.">>)
  @@ (<<"cluster", "disable_package_installation">> :> <<"Set to true if the nodes have the required packages installed.">>)
  @@ (<<"cluster", "disconnected_installation">> :> <<"Set to true if you are performing a disconnected installation.">>)
  @@ (<<"cluster", "networking">> :> <<"Networking configuration of your cluster.">>)
  @@ (<<"cluster", "networking", "pod_cidr_block">> :> <<"Kubernetes will assign pods IPs in this range. Do not use a range that is", "already in use on your local network!">>)
  @@ (<<"cluster", "networking", "service_cidr_block">> :> <<"Kubernetes will assign services IPs in this range. Do not use a range", "that is already in use by your local network or pod network!">>)
  @@ (<<"cluster", "networking", "update_hosts_files">> :> <<"Set to true if your nodes cannot resolve each others' names using DNS.">>)
  @@ (<<"cluster", "networking", "http_proxy">> :> <<"Set the proxy server to use for HTTP connections.">>)
  @@ (<<"cluster", "networking", "https_proxy">> :> <<"Set the proxy server to use for HTTPs connections.">>)
  @@ (<<"cluster", "networking", "no_proxy">> :> <<"List of host names and/or IPs that shouldn't go through any proxy.", "All nodes' 'host' and 'IPs' are always set.">>)
  @@ (<<"cluster", "certificates">> :> <<"Generated certs configuration.">>)
  @@ (<<"cluster", "certificates", "expiry">> :> <<"Self-signed certificate expiration period in hours; default is 2 years.">>)
  @@ (<<"cluster", "certificates", "ca_expiry">> :> <<"CA certificate expiration period in hours; default is 2 years.">>)
  @@ (<<"cluster", "ssh">> :> <<"SSH configuration for cluster nodes.">>)
  @@ (<<"cluster", "ssh", "user">> :> <<"This user must be able to sudo without password.">>)
  @@ (<<"cluster", "ssh", "ssh_key">> :> <<"Absolute path to the ssh private key we should use to manage nodes.">>)
  @@ (<<"cluster", "kube_apiserver">> :> <<"Override configuration of Kubernetes components.">>)
  @@ (<<"cluster", "cloud_provider">> :> <<"Kubernetes cloud provider integration">>)
  @@ (<<"cluster", "cloud_provider", "provider">> :> <<"Options: 'aws','azure','cloudstack','fake','gce','mesos','openstack',", "'ovirt','photon','rackspace','vsphere'.", "Leave empty for bare metal setups or other unsupported providers.">>)
  @@ (<<"cluster", "cloud_provider", "config">> :> <<"Path to the config file, leave empty if provider does not require it.">>)
  @@ (<<"docker">> :> <<"Docker daemon configuration of all cluster nodes">>)
  @@ (<<"etcd">> :> <<"Etcd nodes are the ones that run the etcd distributed key-value database.">>)
  @@ (<<"etcd", "nodes">> :> <<"Provide the hostname and IP of each node. If the node has an IP for internal", "traffic, provide it in the internalip field. Otherwise, that field can be", "left blank.">>)
  @@ (<<"master">> :> <<"Master nodes are the ones that run the Kubernetes control plane components.">>)
  @@ (<<"worker">> :> <<"Worker nodes are the ones that will run your workloads on the cluster.">>)
  @@ (<<"ingress">> :> <<"Ingress nodes will run the ingress controllers.">>)
  @@ (<<"storage">> :> <<"Storage nodes will be used to create a distributed storage cluster that can", "be consumed by your workloads.">>)
  @@ (<<"master", "load_balanced_fqdn">> :> <<"If you have set up load balancing for master nodes, enter the FQDN name here.", "Otherwise, use the IP address of a single master node.">>)
  @@ (<<"master", "load_balanced_short_name">> :> <<"If you have set up load balancing for master nodes, enter the short name here.", "Otherwise, use the IP address of a single master node.">>)
  @@ (<<"docker", "storage", "direct_lvm">> :> <<"Configure devicemapper in direct-lvm mode (RHEL/CentOS only).">>)
  @@ (<<"docker", "storage", "direct_lvm", "block_device">> :> <<"Path to the block device that will be used for direct-lvm mode. This", "device will be wiped and used exclusively by docker.">>)
  @@ (<<"docker", "storage", "direct_lvm", "enable_deferred_deletion">> :> <<"Set to true if you want to enable deferred deletion when using", "direct-lvm mode.">>)
  @@ (<<"docker_registry">> :> <<"If you want to use an internal registry for the installation or upgrade, you", "must provide its information here. You must seed this registry before the", "installation or upgrade of your cluster. This registry must be accessible from", "all nodes on the cluster.">>)
  @@ (<<"docker_registry", "server">> :> <<"IP or hostname and port for your registry.">>)
  @@ (<<"docker_registry", "CA">> :> <<"Absolute path to the certificate authority that should be trusted when", "connecting to your registry.">>)
  @@ (<<"docker_registry", "username">> :> <<"Leave blank for unauthenticated access.">>)
  @@ (<<"docker_registry", "password">> :> <<"Leave blank for unauthenticated access.">>)
  @@ (<<"add_ons">> :> <<"Add-ons are additional components that KET installs on the cluster.">>)
  @@ (<<"nfs">> :> <<"A set of NFS volumes for use by on-cluster persistent workloads">>)
  @@ (<<"nfs", "nfs_host">> :> <<"The host name or ip address of an NFS server.">>)
  @@ (<<"nfs", "mount_path">> :> <<"The mount path of an NFS share. Must start with /">>)
  @@ (<<"add_ons", "cni", "provider">> :> <<"Selecting 'custom' will result in a CNI ready cluster, however it is up to", "you to configure a plugin after the install.", "Options: 'calico','weave','contiv','custom'.">>)
  @@ (<<"add_ons", "cni", "options", "calico", "mode">> :> <<"Options: 'overlay','routed'.">>)
  @@ (<<"add_ons", "cni", "options", "calico", "log_level">> :> <<"Options: 'warning','info','debug'.">>)
  @@ (<<"add_ons", "cni", "options", "calico", "workload_mtu">> :> <<"MTU for the workload interface, configures the CNI config.">>)
  @@ (<<"add_ons", "cni", "options", "calico", "felix_input_mtu">> :> <<"MTU for the tunnel device used if IPIP is enabled.">>)
  @@ (<<"add_ons", "dns", "provider">> :> <<"Options: 'kubedns','coredns'.">>)
  @@ (<<"add_ons", "heapster", "options", "influxdb", "pvc_name">> :> <<"Provide the name of the persistent volume claim that you will create", "after installation. If not specified, the data will be stored in", "ephemeral storage.">>)
  @@ (<<"add_ons", "heapster", "options", "heapster", "service_type">> :> <<"Specify kubernetes ServiceType. Defaults to 'ClusterIP'.", "Options: 'ClusterIP','NodePort','LoadBalancer','ExternalName'.">>)
  @@ (<<"add_ons", "heapster", "options", "heapster", "sink">> :> <<"Specify the sink to store heapster data. Defaults to an influxdb pod", "running on the cluster.">>)
  @@ (<<"add_ons", "package_manager", "provider">> :> <<"Options: 'helm'">>)
  @@ (<<"add_ons", "rescheduler">> :> <<"The rescheduler ensures that critical add-ons remain running on the cluster.">>)

\* -------------------------------------------------------------------- stack
Push(s, v) == Append(s, v)

\* A slip: popping the empty stack is no error.
PopOrNothing(s) ==
  [s |-> IF Len(s) = 0 THEN s ELSE SubSeq(s, 1, Len(s) - 1), err |-> FALSE]

\* Pop: the stack without its top, and whether the stack was empty.
Pop(s) ==
  IF Len(s) = 0 THEN [s |-> s, err |-> TRUE]
  ELSE [s |-> SubSeq(s, 1, Len(s) - 1), err |-> FALSE]

\* ------------------------------------------------------------ lines of text
\* A line of the plan file: its leading spaces, its tokens after them, and the
\* scalar a "key: value" line carries (<<>> when it carries none).
\*   key line        toks = <<key, ":">>        "  key: value"
\*   list-item key   toks = <<"-", key, ":">>   "  - key: value"
\*   comment         toks = <<"#", text>>       "  # text"
\*   blank           toks = <<>>
Line(lead, toks, val) == [lead |-> lead, toks |-> toks, val |-> val]

BlankLine == Line(0, <<>>, <<>>)

\* yamlKeyRE.FindStringSubmatch(text): nil, or the number of spaces in
\* matched[0] (the leading spaces, plus the one after a list-item dash) and
\* the key matched[1].
yamlKeyRE(line) ==
  LET t == line.toks
  IN IF Len(t) = 2 /\ t[1] \notin {"-", "#", ":"} /\ t[2] = ":"
     THEN Ptr([spaces |-> line.lead, key |-> t[1]])
     ELSE IF Len(t) = 3 /\ t[1] = "-" /\ t[2] \notin {"-", "#", ":"} /\ t[3] = ":"
     THEN Ptr([spaces |-> line.lead + 1, key |-> t[2]])
     ELSE Nil

\* A slip: the indentation of the line is lost.
countLeadingSpaceNone(line) == 0

countLeadingSpace(line) == line.lead


\* A slip: the blank line comes before every comment block.
getCommentedLineSpaced(line, commentLines, addNewLine) ==
  <<BlankLine>>
  \o [i \in 1..Len(commentLines) |->
        Line(countLeadingSpace(line), <<"#", commentLines[i]>>, <<>>)]
  \o <<line>>

\* A slip: the comment lines without their comment marker.
getCommentedLineNoMarker(line, commentLines, addNewLine) ==
  (IF addNewLine THEN <<BlankLine>> ELSE <<>>)
  \o [i \in 1..Len(commentLines) |->
        Line(countLeadingSpace(line), <<commentLines[i]>>, <<>>)]
  \o <<line>>

\* The lines of the string getCommentedLine returns.
getCommentedLine(line, commentLines, addNewLine) ==
  (IF addNewLine THEN <<BlankLine>> ELSE <<>>)
  \o [i \in 1..Len(commentLines) |->
        Line(countLeadingSpace(line), <<"#", commentLines[i]>>, <<>>)]
  \o <<line>>

\* delete(m, k)
MapDelete(m, k) == [x \in DOMAIN m \ {k} |-> m[x]]

\* A slip: the key alone, without the keys it is nested in.
JoinLeaf(s) == <<s[Len(s)]>>

\* strings.Join(s.s, "."): the dotted path of the stack.  A key holds no dot
\* (yamlKeyRE matches letters, '_' and '-' only), so the path is written as
\* the sequence of its keys.
Join(s) == s

\* A slip: no copy is made, the working map is the registry itself.
commentMapShared(reg, working) == working

\* The registry after a step of Write that left its own map as working: the
\* map is a copy made entry by entry, so the registry is as it was.
commentMapAfter(reg, working) == reg

\* ------------------------------------------------------------ Write: the scan
\* The locals of Write at the head of its loop; out is what has been written
\* to the file, failed whether Write has returned an error.  annotated lists
\* the dotted paths of the key lines written with a comment block, in order
\* (a history of the scan, read by no step of it).
ScanStart ==
  [s |-> <<>>, prevIndent |-> -1, addNewLineBeforeComment |-> TRUE,
   oneTimeComments |-> commentMap, out |-> <<>>, failed |-> FALSE,
   annotated |-> <<>>]

\* The pops of one key line: prevIndent - indent + 1 of them, failing on an
\* empty stack.
RECURSIVE PopTimes(_, _)
PopTimes(s, n) ==
  IF n = 0 THEN [s |-> s, err |-> FALSE]
  ELSE LET r == Pop(s)
       IN IF r.err THEN r ELSE PopTimes(r.s, n - 1)

\* One iteration of the loop over the marshalled lines.
ScanLine(st, text) ==
  LET matched == yamlKeyRE(text)
  IN IF matched = Nil
     THEN [st EXCEPT !.out = Append(@, text), !.addNewLineBeforeComment = TRUE]
     ELSE
       LET indent == matched[1].spaces \div 2
           key == matched[1].key
           leaving == indent < st.prevIndent
           out1 == IF leaving THEN Append(st.out, BlankLine) ELSE st.out
           flag1 == IF leaving THEN FALSE ELSE st.addNewLineBeforeComment
           popped == IF indent <= st.prevIndent
                     THEN PopTimes(st.s, st.prevIndent - indent + 1)
                     ELSE [s |-> st.s, err |-> FALSE]
           s2 == Push(popped.s, key)
       IN IF popped.err
          THEN [st EXCEPT !.out = out1, !.addNewLineBeforeComment = flag1,
                          !.failed = TRUE]
          ELSE IF Join(s2) \in DOMAIN st.oneTimeComments
          THEN [st EXCEPT
                  !.s = s2, !.prevIndent = indent,
                  !.out = out1 \o getCommentedLine(text, st.oneTimeComments[Join(s2)], flag1),
                  !.oneTimeComments = MapDelete(@, <<key>>),
                  !.addNewLineBeforeComment = TRUE,
                  !.annotated = Append(@, Join(s2))]
          ELSE [st EXCEPT
                  !.s = s2, !.prevIndent = indent,
                  !.out = Append(out1, text),
                  !.addNewLineBeforeComment = TRUE]

\* The loop, from line i on; it stops at the first error.
RECURSIVE ScanFrom(_, _, _)
ScanFrom(st, lines, i) ==
  IF i > Len(lines) \/ st.failed THEN st
  ELSE ScanFrom(ScanLine(st, lines[i]), lines, i + 1)

\* The scan of a whole marshalled text.
Scan(lines) == ScanFrom(ScanStart, lines, 1)

\* --------------------------------------------------------------- yaml.Marshal
\* The scalars of a line: the YAML text of a value fixes its type (a string
\* that reads as a number or a boolean is written quoted).
StrVal(v) == <<"str", v>>
CharsVal(v) == <<"chars", v>>
IntVal(v) == <<"int", v>>
BoolVal(v) == <<"bool", v>>
Null == <<"null">>
EmptyList == <<"[]">>

KV(lead, key, val) == Line(lead, <<key, ":">>, val)
Item(lead, key, val) == Line(lead, <<"-", key, ":">>, val)
Section(lead, key) == Line(lead, <<key, ":">>, <<>>)

\* The lines of a list of records: the first field after the dash, the
\* others two columns further in.
RECURSIVE Flatten(_)
Flatten(ss) == IF ss = <<>> THEN <<>> ELSE Head(ss) \o Flatten(Tail(ss))

MarshalCluster(c) ==
  <<Section(0, "cluster"),
    KV(2, "name", StrVal(c.Name)),
    KV(2, "admin_password", CharsVal(c.AdminPassword)),
    KV(2, "disable_package_installation", BoolVal(c.DisablePackageInstallation))>>
  \o (IF c.AllowPackageInstallation = Nil THEN <<>>
      ELSE <<KV(2, "allow_package_installation", BoolVal(c.AllowPackageInstallation[1]))>>)
  \o <<KV(2, "disconnected_installation", BoolVal(c.DisconnectedInstallation)),
       Section(2, "networking")>>
  \o (IF c.Networking.Type = "" THEN <<>>
      ELSE <<KV(4, "type", StrVal(c.Networking.Type))>>)
  \o <<KV(4, "pod_cidr_block", StrVal(c.Networking.PodCIDRBlock)),
       KV(4, "service_cidr_block", StrVal(c.Networking.ServiceCIDRBlock)),
       KV(4, "update_hosts_files", BoolVal(c.Networking.UpdateHostsFiles)),
       Section(2, "certificates"),
       KV(4, "expiry", StrVal(c.Certificates.Expiry)),
       KV(4, "ca_expiry", StrVal(c.Certificates.CAExpiry)),
       Section(2, "ssh"),
       KV(4, "user", StrVal(c.SSH.User)),
       KV(4, "ssh_key", StrVal(c.SSH.Key)),
       KV(4, "ssh_port", IntVal(c.SSH.Port))>>

MarshalDockerRegistry(r) ==
  <<Section(0, "docker_registry"),
    KV(2, "server", <<"server", r.Server>>)>>
  \o (IF r.Address = "" THEN <<>> ELSE <<KV(2, "address", StrVal(r.Address))>>)
  \o (IF r.Port = 0 THEN <<>> ELSE <<KV(2, "port", IntVal(r.Port))>>)

MarshalCNI(c) ==
  IF c = Nil THEN <<KV(2, "cni", Null)>>
  ELSE <<Section(2, "cni"),
         KV(4, "provider", StrVal(c[1].Provider)),
         Section(4, "options"),
         Section(6, "calico"),
         KV(8, "mode", StrVal(c[1].Options.Calico.Mode)),
         KV(8, "log_level", StrVal(c[1].Options.Calico.LogLevel)),
         KV(8, "workload_mtu", IntVal(c[1].Options.Calico.WorkloadMTU)),
         KV(8, "felix_input_mtu", IntVal(c[1].Options.Calico.FelixInputMTU))>>

MarshalHeapster(h) ==
  IF h = Nil THEN <<KV(2, "heapster", Null)>>
  ELSE <<Section(2, "heapster"),
         Section(4, "options"),
         Section(6, "heapster"),
         KV(8, "replicas", IntVal(h[1].Options.Heapster.Replicas)),
         KV(8, "service_type", StrVal(h[1].Options.Heapster.ServiceType)),
         KV(8, "sink", StrVal(h[1].Options.Heapster.Sink)),
         Section(6, "influxdb"),
         KV(8, "pvc_name", StrVal(h[1].Options.InfluxDB.PVCName))>>
       \o (IF h[1].Options.HeapsterReplicas = 0 THEN <<>>
           ELSE <<KV(6, "heapster_replicas", IntVal(h[1].Options.HeapsterReplicas))>>)
       \o (IF h[1].Options.InfluxDBPVCName = "" THEN <<>>
           ELSE <<KV(6, "influxdb_pvc_name", StrVal(h[1].Options.InfluxDBPVCName))>>)

MarshalDashboard(key, d) ==
  IF d = Nil THEN <<KV(2, key, Null)>>
  ELSE <<Section(2, key), KV(4, "disable", BoolVal(d[1].Disable))>>

MarshalAddOns(a) ==
  <<Section(0, "add_ons")>>
  \o MarshalCNI(a.CNI)
  \o <<Section(2, "dns"), KV(4, "provider", StrVal(a.DNS.Provider))>>
  \o MarshalHeapster(a.HeapsterMonitoring)
  \o MarshalDashboard("dashboard", a.Dashboard)
  \o (IF a.DashboardDeprecated = Nil THEN <<>>
      ELSE MarshalDashboard("dashbard", a.DashboardDeprecated))
  \o <<Section(2, "package_manager"),
       KV(4, "disable", BoolVal(a.PackageManager.Disable)),
       KV(4, "provider", StrVal(a.PackageManager.Provider))>>

MarshalFeatures(f) ==
  IF f = Nil THEN <<>>
  ELSE IF f[1].PackageManager = Nil THEN <<KV(0, "features", <<"{}">>)>>
  ELSE <<Section(0, "features"),
         Section(2, "package_manager"),
         KV(4, "enabled", BoolVal(f[1].PackageManager[1].Enabled))>>

MarshalNode(n) ==
  <<Item(2, "host", StrVal(n.Host)),
    KV(4, "ip", StrVal(n.IP)),
    KV(4, "internalip", StrVal(n.InternalIP))>>

MarshalNodeGroup(key, g) ==
  <<Section(0, key), KV(2, "expected_count", IntVal(g.ExpectedCount))>>
  \o (IF g.Nodes = <<>> THEN <<KV(2, "nodes", EmptyList)>>
      ELSE <<Section(2, "nodes")>>
           \o Flatten([i \in 1..Len(g.Nodes) |-> MarshalNode(g.Nodes[i])]))

MarshalVolume(v) ==
  <<Item(2, "nfs_host", StrVal(v.Host)), KV(4, "mount_path", StrVal(v.Path))>>

MarshalNFS(n) ==
  <<Section(0, "nfs")>>
  \o (IF n.Volumes = <<>> THEN <<KV(2, "nfs_volume", EmptyList)>>
      ELSE <<Section(2, "nfs_volume")>>
           \o Flatten([i \in 1..Len(n.Volumes) |-> MarshalVolume(n.Volumes[i])]))

\* yaml.Marshal(p): the uncommented lines of the plan, in the order of the
\* plan's fields, two columns per level, a list's items at the column of
\* the list's key.
Marshal(p) ==
  MarshalCluster(p.Cluster)
  \o MarshalDockerRegistry(p.DockerRegistry)
  \o MarshalAddOns(p.AddOns)
  \o MarshalFeatures(p.Features)
  \o MarshalNodeGroup("etcd", p.Etcd)
  \o MarshalNodeGroup("master", p.Master)
  \o MarshalNodeGroup("worker", p.Worker)
  \o MarshalNodeGroup("ingress", p.Ingress)
  \o MarshalNodeGroup("storage", p.Storage)
  \o MarshalNFS(p.NFS)

\* ------------------------------------------------------------- yaml.Unmarshal
IsBlank(l) == l.toks = <<>>
IsComment(l) == l.toks # <<>> /\ l.toks[1] = "#"
IsItem(l) == Len(l.toks) = 3 /\ l.toks[1] = "-" /\ l.toks[3] = ":"
IsKey(l) == Len(l.toks) = 2 /\ l.toks[1] \notin {"-", "#", ":"} /\ l.toks[2] = ":"
KeyOf(l) == IF IsItem(l) THEN l.toks[2] ELSE l.toks[1]

\* What a YAML reader sees: the text without its blank and comment lines.
Content(lines) == SelectSeq(lines, LAMBDA l : ~ IsBlank(l) /\ ~ IsComment(l))

\* The least element of a set of indices, or otherwise when it is empty.
Least(S, otherwise) ==
  IF S = {} THEN otherwise ELSE CHOOSE k \in S : \A j \in S : k <= j

\* The index after the block of the mapping key at i: its nested keys, and
\* the items of its list, which stand at the key's own column.
BlockEnd(L, i) ==
  Least({k \in (i + 1)..Len(L) :
           L[k].lead < L[i].lead \/ (L[k].lead = L[i].lead /\ ~ IsItem(L[k]))},
        Len(L) + 1)

\* The index after the list item that starts at i.
ItemEnd(L, i) ==
  Least({k \in (i + 1)..Len(L) : L[k].lead <= L[i].lead}, Len(L) + 1)

\* The index in lo..hi of the key line of that key at column lead, or 0.
FindKey(L, lo, hi, lead, key) ==
  Least({k \in lo..hi : IsKey(L[k]) /\ L[k].lead = lead /\ KeyOf(L[k]) = key}, 0)

\* The index of the line of the field at a path of keys, sought among the
\* keys at column lead within lo..hi; 0 when the text has no such field.
RECURSIVE Locate(_, _, _, _, _)
Locate(L, lo, hi, lead, path) ==
  LET i == FindKey(L, lo, hi, lead, Head(path))
  IN IF i = 0 THEN 0
     ELSE IF Len(path) = 1 THEN i
     ELSE Locate(L, i + 1, BlockEnd(L, i) - 1, lead + 2, Tail(path))

\* The scalar of the field at path, or the zero value when it is absent.
Field(L, path, zero) ==
  LET i == Locate(L, 1, Len(L), 0, path)
  IN IF i = 0 \/ L[i].val = <<>> THEN zero ELSE L[i].val[2]

IsNull(L, path) ==
  LET i == Locate(L, 1, Len(L), 0, path)
  IN i = 0 \/ L[i].val = Null

\* The indices of the items of the list at path, in order.
ItemsOf(L, path) ==
  LET i == Locate(L, 1, Len(L), 0, path)
  IN IF i = 0 THEN <<>>
     ELSE LET hi == BlockEnd(L, i) - 1
          IN SelectSeq([k \in 1..(hi - i) |-> i + k],
                       LAMBDA j : IsItem(L[j]) /\ L[j].lead = L[i].lead)

\* The scalar of a field of the list item that starts at j.
ItemField(L, j, key, zero) ==
  IF KeyOf(L[j]) = key THEN L[j].val[2]
  ELSE LET k == FindKey(L, j + 1, ItemEnd(L, j) - 1, L[j].lead + 2, key)
       IN IF k = 0 THEN zero ELSE L[k].val[2]

UnmarshalNodeGroup(L, key) ==
  LET items == ItemsOf(L, <<key, "nodes">>)
  IN [ExpectedCount |-> Field(L, <<key, "expected_count">>, 0),
      Nodes |-> [n \in 1..Len(items) |->
                   [Host |-> ItemField(L, items[n], "host", ""),
                    IP |-> ItemField(L, items[n], "ip", ""),
                    InternalIP |-> ItemField(L, items[n], "internalip", "")]]]

UnmarshalCNI(L) ==
  IF IsNull(L, <<"add_ons", "cni">>) THEN Nil
  ELSE Ptr([Provider |-> Field(L, <<"add_ons", "cni", "provider">>, ""),
            Options |-> [Calico |->
              [Mode |-> Field(L, <<"add_ons", "cni", "options", "calico", "mode">>, ""),
               LogLevel |-> Field(L, <<"add_ons", "cni", "options", "calico", "log_level">>, ""),
               WorkloadMTU |-> Field(L, <<"add_ons", "cni", "options", "calico", "workload_mtu">>, 0),
               FelixInputMTU |-> Field(L, <<"add_ons", "cni", "options", "calico", "felix_input_mtu">>, 0)]]])

UnmarshalHeapster(L) ==
  IF IsNull(L, <<"add_ons", "heapster">>) THEN Nil
  ELSE Ptr([Options |->
         [Heapster |->
            [Replicas |-> Field(L, <<"add_ons", "heapster", "options", "heapster", "replicas">>, 0),
             ServiceType |-> Field(L, <<"add_ons", "heapster", "options", "heapster", "service_type">>, ""),
             Sink |-> Field(L, <<"add_ons", "heapster", "options", "heapster", "sink">>, "")],
          HeapsterReplicas |-> Field(L, <<"add_ons", "heapster", "options", "heapster_replicas">>, 0),
          InfluxDB |-> [PVCName |-> Field(L, <<"add_ons", "heapster", "options", "influxdb", "pvc_name">>, "")],
          InfluxDBPVCName |-> Field(L, <<"add_ons", "heapster", "options", "influxdb_pvc_name">>, "")]])

UnmarshalDashboard(L, key) ==
  IF IsNull(L, <<"add_ons", key>>) THEN Nil
  ELSE Ptr([Disable |-> Field(L, <<"add_ons", key, "disable">>, FALSE)])

UnmarshalFeatures(L) ==
  IF Locate(L, 1, Len(L), 0, <<"features">>) = 0 THEN Nil
  ELSE IF Locate(L, 1, Len(L), 0, <<"features", "package_manager">>) = 0
  THEN Ptr([PackageManager |-> Nil])
  ELSE Ptr([PackageManager |->
              Ptr([Enabled |-> Field(L, <<"features", "package_manager", "enabled">>, FALSE)])])

UnmarshalCluster(L) ==
  [Name |-> Field(L, <<"cluster", "name">>, ""),
   AdminPassword |-> Field(L, <<"cluster", "admin_password">>, <<>>),
   DisablePackageInstallation |->
     Field(L, <<"cluster", "disable_package_installation">>, FALSE),
   AllowPackageInstallation |->
     IF Locate(L, 1, Len(L), 0, <<"cluster", "allow_package_installation">>) = 0
     THEN Nil
     ELSE Ptr(Field(L, <<"cluster", "allow_package_installation">>, FALSE)),
   DisconnectedInstallation |->
     Field(L, <<"cluster", "disconnected_installation">>, FALSE),
   Networking |->
     [Type |-> Field(L, <<"cluster", "networking", "type">>, ""),
      PodCIDRBlock |-> Field(L, <<"cluster", "networking", "pod_cidr_block">>, ""),
      ServiceCIDRBlock |-> Field(L, <<"cluster", "networking", "service_cidr_block">>, ""),
      UpdateHostsFiles |-> Field(L, <<"cluster", "networking", "update_hosts_files">>, FALSE)],
   Certificates |->
     [Expiry |-> Field(L, <<"cluster", "certificates", "expiry">>, ""),
      CAExpiry |-> Field(L, <<"cluster", "certificates", "ca_expiry">>, "")],
   SSH |->
     [User |-> Field(L, <<"cluster", "ssh", "user">>, ""),
      Key |-> Field(L, <<"cluster", "ssh", "ssh_key">>, ""),
      Port |-> Field(L, <<"cluster", "ssh", "ssh_port">>, 0)]]

\* The plan the content lines L deserialize to.
UnmarshalPlan(L) ==
  LET volumes == ItemsOf(L, <<"nfs", "nfs_volume">>)
  IN [Cluster |-> UnmarshalCluster(L),
      DockerRegistry |->
        [Server |-> Field(L, <<"docker_registry", "server">>, <<>>),
         Address |-> Field(L, <<"docker_registry", "address">>, ""),
         Port |-> Field(L, <<"docker_registry", "port">>, 0)],
      AddOns |->
        [CNI |-> UnmarshalCNI(L),
         DNS |-> [Provider |-> Field(L, <<"add_ons", "dns", "provider">>, "")],
         HeapsterMonitoring |-> UnmarshalHeapster(L),
         PackageManager |->
           [Disable |-> Field(L, <<"add_ons", "package_manager", "disable">>, FALSE),
            Provider |-> Field(L, <<"add_ons", "package_manager", "provider">>, "")],
         Dashboard |-> UnmarshalDashboard(L, "dashboard"),
         DashboardDeprecated |-> UnmarshalDashboard(L, "dashbard")],
      Features |-> UnmarshalFeatures(L),
      Etcd |-> UnmarshalNodeGroup(L, "etcd"),
      Master |-> UnmarshalNodeGroup(L, "master"),
      Worker |-> UnmarshalNodeGroup(L, "worker"),
      Ingress |-> UnmarshalNodeGroup(L, "ingress"),
      Storage |-> UnmarshalNodeGroup(L, "storage"),
      NFS |-> [Volumes |-> [n \in 1..Len(volumes) |->
                 [Host |-> ItemField(L, volumes[n], "nfs_host", ""),
                  Path |-> ItemField(L, volumes[n], "mount_path", "")]]]]

\* yaml.Unmarshal(d, p): an error unless every content line is a key line.
Unmarshal(lines) ==
  LET L == Content(lines)
  IN IF \A i \in 1..Len(L) : IsKey(L[i]) \/ IsItem(L[i])
     THEN [p |-> Ptr(UnmarshalPlan(L)), err |-> FALSE]
     ELSE [p |-> Nil, err |-> TRUE]

\* ------------------------------------------------------------------ inputs
\* The template options of a run of WritePlanTemplate: node counts of up to
\* MaxNodes nodes in all, up to MaxVolumes volumes, and no admin password or
\* one the user gave.
GivenPassword == <<"s", "3", "!">>

OptSpace ==
  {o \in [EtcdNodes : 0..MaxNodes, MasterNodes : 0..MaxNodes,
          WorkerNodes : 0..MaxNodes, IngressNodes : 0..MaxNodes,
          StorageNodes : 0..MaxNodes, NFSVolumes : 0..MaxVolumes,
          AdminPassword : {<<>>, GivenPassword}] :
     o.EtcdNodes + o.MasterNodes + o.WorkerNodes + o.IngressNodes + o.StorageNodes
       <= MaxNodes}

\* The documents a hand-edited or older plan file deserializes to.  The
\* fields the migration reads and writes:
FeaturesSpace ==
  {Nil, Ptr([PackageManager |-> Nil])}
  \cup {Ptr([PackageManager |-> Ptr([Enabled |-> b])]) : b \in BOOLEAN}
BoolPtrSpace == {Nil, Ptr(TRUE), Ptr(FALSE)}
DashboardSpace == {Nil} \cup {Ptr([Disable |-> b]) : b \in BOOLEAN}

MigratedPart ==
  [Features : FeaturesSpace,
   PackageManager : [Disable : BOOLEAN, Provider : {"", "tiller"}],
   AllowPackageInstallation : BoolPtrSpace,
   DisablePackageInstallation : BOOLEAN,
   DashboardDeprecated : DashboardSpace,
   Dashboard : DashboardSpace,
   DockerRegistry : [Server : {<<>>, <<"registry.local", 5000>>},
                     Address : {"", "10.0.0.9"}, Port : {0, 8443}]]

\* and the fields only the defaults read and write:
CNISpace ==
  {Nil} \cup
  {Ptr([Provider |-> pr, Options |-> [Calico |-> c]]) :
     pr \in {"", "weave"},
     c \in [Mode : {"", "routed"}, LogLevel : {"", "debug"},
            WorkloadMTU : {0, 9000}, FelixInputMTU : {0, 8980}]}
HeapsterSpace ==
  {Nil} \cup
  {Ptr([Options |-> [Heapster |-> h, HeapsterReplicas |-> r,
                     InfluxDB |-> [PVCName |-> pvc], InfluxDBPVCName |-> old]]) :
     h \in [Replicas : {0, 3}, ServiceType : {"", "NodePort"}, Sink : {"", "gcm"}],
     r \in {0, 5}, pvc \in {"", "claim"}, old \in {"", "oldclaim"}}

DefaultedPart ==
  [NetworkingType : {"", "routed"}, CNI : CNISpace, DNSProvider : {"", "coredns"},
   HeapsterMonitoring : HeapsterSpace, CAExpiry : {"", "8760h"}]

Document(m, d) ==
  [ZeroPlan EXCEPT
     !.Features = m.Features,
     !.AddOns.PackageManager = m.PackageManager,
     !.Cluster.AllowPackageInstallation = m.AllowPackageInstallation,
     !.Cluster.DisablePackageInstallation = m.DisablePackageInstallation,
     !.AddOns.DashboardDeprecated = m.DashboardDeprecated,
     !.AddOns.Dashboard = m.Dashboard,
     !.DockerRegistry = m.DockerRegistry,
     !.Cluster.Networking.Type = d.NetworkingType,
     !.AddOns.CNI = d.CNI,
     !.AddOns.DNS.Provider = d.DNSProvider,
     !.AddOns.HeapsterMonitoring = d.HeapsterMonitoring,
     !.Cluster.Certificates.CAExpiry = d.CAExpiry]

\* Two documents of each part, a bare one and a legacy one, with which every
\* value of the other part is combined.
MigratedSamples ==
  {[Features |-> Nil,
    PackageManager |-> [Disable |-> FALSE, Provider |-> ""],
    AllowPackageInstallation |-> Nil,
    DisablePackageInstallation |-> FALSE,
    DashboardDeprecated |-> Nil,
    Dashboard |-> Nil,
    DockerRegistry |-> [Server |-> <<>>, Address |-> "", Port |-> 0]],
   [Features |-> Ptr([PackageManager |-> Ptr([Enabled |-> FALSE])]),
    PackageManager |-> [Disable |-> FALSE, Provider |-> "tiller"],
    AllowPackageInstallation |-> Ptr(FALSE),
    DisablePackageInstallation |-> FALSE,
    DashboardDeprecated |-> Ptr([Disable |-> TRUE]),
    Dashboard |-> Nil,
    DockerRegistry |-> [Server |-> <<>>, Address |-> "10.0.0.9", Port |-> 8443]]}

DefaultedSamples ==
  {[NetworkingType |-> "", CNI |-> Nil, DNSProvider |-> "",
    HeapsterMonitoring |-> Nil, CAExpiry |-> ""],
   [NetworkingType |-> "routed", CNI |-> Nil, DNSProvider |-> "coredns",
    HeapsterMonitoring |->
      Ptr([Options |->
             [Heapster |-> [Replicas |-> 3, ServiceType |-> "NodePort", Sink |-> "gcm"],
              HeapsterReplicas |-> 5,
              InfluxDB |-> [PVCName |-> "claim"],
              InfluxDBPVCName |-> "oldclaim"]]),
    CAExpiry |-> "8760h"]}

\* ------------------------------------------------------------ the state machine
\* pc is the place of the run: in WritePlanTemplate ("WritePlanTemplate",
\* "generate", "build", "write"), between it and a later Read ("written"), in
\* FilePlanner.Read ("unmarshalled", "migrated"), or at an end ("read",
\* "failed").  built is the plan WritePlanTemplate built, doc the plan as
\* deserialized, plan the plan in hand, file the plan file (Nil: none),
\* bytez the marshalled text of the last Write and annotated the dotted paths
\* that Write gave a comment block, in order; requests counts the calls of
\* garbler.NewPassword.

\* No Write is under way: the registry is as declared, no file is open.
NoWrite ==
  /\ registry = commentMap /\ scan = Nil /\ pos = 0
  /\ handle = "none" /\ outputs = <<>>

\* No package check is under way.
NoCheck == check = Nil /\ result = Nil

\* No apply command is under way.
NoApply == cmd = Nil /\ invoked = <<>> /\ network = Nil

\* A run of the template command, to be followed by a Read of its file.
InitTemplate ==
  /\ pc = "WritePlanTemplate"
  /\ opts \in OptSpace
  /\ attempts = 0 /\ requests = 0 /\ pass = <<>> /\ err = ""
  /\ built = Nil /\ bytez = <<>> /\ file = Nil /\ annotated = <<>>
  /\ doc = Nil /\ plan = Nil
  /\ NoWrite /\ NoCheck /\ NoApply

\* A Read of a plan file written by hand or by an older version, from the
\* point where it has been deserialized.
InitRead ==
  /\ pc = "unmarshalled"
  /\ opts = Nil
  /\ attempts = 0 /\ requests = 0 /\ pass = <<>> /\ err = ""
  /\ built = Nil /\ bytez = <<>> /\ file = Nil /\ annotated = <<>>
  /\ \/ \E m \in MigratedPart, d \in DefaultedSamples : doc = Ptr(Document(m, d))
     \/ \E m \in MigratedSamples, d \in DefaultedPart : doc = Ptr(Document(m, d))
  /\ plan = doc
  /\ NoWrite /\ NoCheck /\ NoApply

Init == InitTemplate \/ InitRead

\* A slip: the plan is built whether or not a password was given.
WritePlanTemplateNoPassword ==
  /\ pc = "WritePlanTemplate"
  /\ pc' = "build"
  /\ UNCHANGED <<opts, attempts, requests, pass, err, built, bytez, file, annotated,
               doc, plan>>
  /\ UNCHANGED <<scanVars, checkVars, applyVars>>

\* WritePlanTemplate, to its first call.
WritePlanTemplate ==
  /\ pc = "WritePlanTemplate"
  /\ pc' = IF opts.AdminPassword = <<>> THEN "generate" ELSE "build"
  /\ UNCHANGED <<opts, attempts, requests, pass, err, built, bytez, file, annotated,
               doc, plan>>
  /\ UNCHANGED <<scanVars, checkVars, applyVars>>


\* A slip: one attempt more before giving up.
lastAttemptOneMore == 5 + 1

\* The value of attempts at which the loop gives up.
lastAttempt == 5

\* What one iteration of generateAlphaNumericPassword's loop does with what
\* garbler.NewPassword returned (cand, or an error).
Attempt(failure, cand) ==
  /\ requests' = requests + 1
  /\ pass' = IF failure THEN <<>> ELSE cand
  /\ IF failure
     THEN /\ err' = "error generating random password"
          /\ pc' = "failed"
          /\ UNCHANGED <<attempts, opts>>
     ELSE IF MatchesPasswordRE(cand)
     THEN /\ opts' = [opts EXCEPT !.AdminPassword = cand]
          /\ pc' = "build"
          /\ UNCHANGED <<attempts, err>>
     ELSE IF attempts = lastAttempt
     THEN /\ err' = "failed to generate alphanumeric password"
          /\ pc' = "failed"
          /\ UNCHANGED <<attempts, opts>>
     ELSE /\ attempts' = attempts + 1
          /\ UNCHANGED <<pc, err, opts>>

GeneratePassword ==
  /\ pc = "generate"
  /\ \E failure \in BOOLEAN : \E cand \in (IF failure THEN {<<>>} ELSE Candidates) :
       Attempt(failure, cand)
  /\ UNCHANGED <<built, bytez, file, annotated, doc, plan>>
  /\ UNCHANGED <<scanVars, checkVars, applyVars>>

\* WritePlanTemplate, from the password to the plan; the generator's locals
\* are gone by now.
BuildPlan ==
  /\ pc = "build"
  /\ plan' = Ptr(buildPlanFromTemplateOptions(opts))
  /\ built' = plan'
  /\ pc' = "write"
  /\ attempts' = 0 /\ requests' = 0 /\ pass' = <<>>
  /\ UNCHANGED <<opts, err, bytez, file, annotated, doc>>
  /\ UNCHANGED <<scanVars, checkVars, applyVars>>

\* FilePlanner.Write(p)
Write ==
  /\ pc = "write"
  /\ bytez' = Marshal(plan[1])
  /\ LET st == Scan(bytez')
     IN /\ file' = Ptr(st.out)
        /\ annotated' = st.annotated
        /\ IF st.failed
           THEN err' = "Empty Stack" /\ pc' = "failed"
           ELSE err' = err /\ pc' = "written"
  /\ UNCHANGED <<opts, attempts, requests, pass, built, doc, plan>>
  /\ UNCHANGED <<scanVars, checkVars, applyVars>>

\* FilePlanner.Read, to the end of yaml.Unmarshal.
ReadFile ==
  /\ pc = "written"
  /\ LET u == Unmarshal(file[1])
     IN IF u.err
        THEN /\ err' = "failed to unmarshal plan"
             /\ pc' = "failed"
             /\ plan' = Nil
             /\ doc' = doc
        ELSE /\ plan' = u.p
             /\ doc' = u.p
             /\ pc' = "unmarshalled"
             /\ err' = err
  /\ UNCHANGED <<opts, attempts, requests, pass, built, bytez, file, annotated>>
  /\ UNCHANGED <<scanVars, checkVars, applyVars>>

ReadDeprecatedFields ==
  /\ pc = "unmarshalled"
  /\ plan' = Ptr(readDeprecatedFields(plan[1]))
  /\ pc' = "migrated"
  /\ UNCHANGED <<opts, attempts, requests, pass, err, built, bytez, file, annotated,
               doc>>
  /\ UNCHANGED <<scanVars, checkVars, applyVars>>

SetDefaults ==
  /\ pc = "migrated"
  /\ plan' = Ptr(setDefaults(plan[1]))
  /\ pc' = "read"
  /\ UNCHANGED <<opts, attempts, requests, pass, err, built, bytez, file, annotated,
               doc>>
  /\ UNCHANGED <<scanVars, checkVars, applyVars>>

\* ---- FilePlanner.Write line by line, on any text
\* bytez is the marshalled text, scan the locals of Write at the head of its
\* loop, pos the line the scanner is at, handle the state of the file handle
\* f, file what the plan file holds, outputs what the finished calls of
\* Write left in the file and whether they failed, in order.

\* The lines a marshalled text is made of here: keys at three depths, some
\* of them registered under one parent and not under another, the first key
\* of a list item, a list item that is no key, and a blank line.
TextLines ==
  {Line(0, <<"cluster", ":">>, <<>>),
   Line(2, <<"admin_password", ":">>, <<>>),
   Line(2, <<"networking", ":">>, <<>>),
   Line(4, <<"pod_cidr_block", ":">>, <<>>),
   Line(0, <<"etcd", ":">>, <<>>),
   Line(2, <<"nodes", ":">>, <<>>),
   Line(0, <<"-", "host", ":">>, <<>>),
   Line(2, <<"-", "item">>, <<>>),
   BlankLine}

\* The column at which the key of a key line starts.
KeyColumn(line) == IF line.toks[1] = "-" THEN line.lead + 2 ELSE line.lead

\* The text is laid out as a block mapping is: the first key is at column
\* 0, and no key line starts further in than two columns past the key
\* before it (the first key of a list item counts from after its dash).
WellLaidOut(lines) ==
  \A k \in 1..Len(lines) :
    yamlKeyRE(lines[k]) # Nil =>
      LET before == {j \in 1..(k - 1) : yamlKeyRE(lines[j]) # Nil}
      IN IF before = {} THEN lines[k].lead = 0
         ELSE LET j == CHOOSE x \in before : \A y \in before : y <= x
              IN lines[k].lead <= KeyColumn(lines[j]) + 2

TextSpace ==
  {lines \in UNION {[1..n -> TextLines] : n \in 0..MaxLines} : WellLaidOut(lines)}

\* Longer texts, as yaml.Marshal lays out parts of a plan: two add-ons with
\* a provider each, and two NFS volumes.
TextSamples ==
  {<<Line(0, <<"add_ons", ":">>, <<>>),
     Line(2, <<"cni", ":">>, <<>>),
     Line(4, <<"provider", ":">>, <<>>),
     Line(2, <<"dns", ":">>, <<>>),
     Line(4, <<"provider", ":">>, <<>>),
     Line(2, <<"dashboard", ":">>, <<>>),
     Line(4, <<"provider", ":">>, <<>>)>>,
   <<Line(0, <<"nfs", ":">>, <<>>),
     Line(2, <<"nfs_volume", ":">>, <<>>),
     Line(2, <<"-", "nfs_host", ":">>, <<>>),
     Line(4, <<"mount_path", ":">>, <<>>),
     Line(2, <<"-", "nfs_host", ":">>, <<>>),
     Line(4, <<"mount_path", ":">>, <<>>)>>}

\* A call of Write on a text, and no other work under way.
InitWrite ==
  /\ pc = "Write"
  /\ bytez \in TextSpace \cup TextSamples
  /\ opts = Nil /\ attempts = 0 /\ requests = 0 /\ pass = <<>> /\ err = ""
  /\ built = Nil /\ file = Nil /\ annotated = <<>> /\ doc = Nil /\ plan = Nil
  /\ NoWrite /\ NoCheck /\ NoApply

\* Write, to the head of its loop: the copy of the registry, os.Create
\* (which empties the file), the stack and the scanner.
WriteOpen ==
  /\ pc = "Write"
  /\ scan' = Ptr([ScanStart EXCEPT !.oneTimeComments = registry])
  /\ pos' = 1
  /\ handle' = "open"
  /\ file' = Ptr(<<>>)
  /\ annotated' = <<>>
  /\ err' = ""
  /\ pc' = "scan"
  /\ UNCHANGED <<opts, attempts, requests, pass, built, bytez, doc, plan,
                 registry, outputs, checkVars, applyVars>>

\* One iteration of the loop; on an empty stack Write returns the error and
\* the deferred f.Close() runs.
WriteLine ==
  /\ pc = "scan" /\ pos <= Len(bytez)
  /\ LET st == ScanLine(scan[1], bytez[pos])
     IN /\ scan' = Ptr(st)
        /\ file' = Ptr(st.out)
        /\ annotated' = st.annotated
        /\ registry' = commentMapAfter(registry, st.oneTimeComments)
        /\ IF st.failed
           THEN /\ err' = "Empty Stack"
                /\ pc' = "failed"
                /\ handle' = "closed"
                /\ outputs' = Append(outputs, [out |-> st.out, failed |-> TRUE])
           ELSE UNCHANGED <<err, pc, handle, outputs>>
  /\ pos' = pos + 1
  /\ UNCHANGED <<opts, attempts, requests, pass, built, bytez, doc, plan, checkVars, applyVars>>

\* The scanner is at the end: Write returns nil and the deferred f.Close()
\* runs.
WriteReturn ==
  /\ pc = "scan" /\ pos > Len(bytez)
  /\ pc' = "returned"
  /\ handle' = "closed"
  /\ outputs' = Append(outputs, [out |-> scan[1].out, failed |-> FALSE])
  /\ UNCHANGED <<opts, attempts, requests, pass, err, built, bytez, file, annotated,
                 doc, plan, registry, scan, pos, checkVars, applyVars>>

\* The same plan is written once more.
WriteAgain ==
  /\ pc \in {"returned", "failed"}
  /\ handle = "closed"
  /\ Len(outputs) < MaxWrites
  /\ pc' = "Write"
  /\ UNCHANGED <<opts, attempts, requests, pass, err, built, bytez, file, annotated,
                 doc, plan, scanVars, checkVars, applyVars>>

NextWrite == WriteOpen \/ WriteLine \/ WriteReturn \/ WriteAgain

SpecWrite == InitWrite /\ [][NextWrite]_vars

\* ---- PackageCheck.Check (pkg/inspector/check/package.go)
\* check is the receiver with what its package manager answers: installed
\* and available are the answers of IsInstalled and IsAvailable, and
\* installedErr, availableErr say whether those calls fail.  result is what
\* Check returned: the boolean and the error's message ("" for nil).
CheckSpace ==
  [ShouldNotBeInstalled : BOOLEAN, InstallationDisabled : BOOLEAN,
   installed : BOOLEAN, installedErr : BOOLEAN,
   available : BOOLEAN, availableErr : BOOLEAN]

Returns(ok, message) == [ok |-> ok, err |-> message]

Check(c) ==
  IF c.installedErr
  THEN Returns(FALSE, "failed to determine if package is installed")
  ELSE IF ~ c.InstallationDisabled
  THEN IF c.installed /\ c.ShouldNotBeInstalled
       THEN Returns(FALSE, "package should not be installed")
       ELSE Returns(TRUE, "")
  ELSE IF c.ShouldNotBeInstalled THEN Returns(TRUE, "")
  ELSE IF c.installed THEN Returns(TRUE, "")
  ELSE IF c.availableErr
  THEN Returns(FALSE, "failed to determine if package is available for install")
  ELSE IF ~ c.available
  THEN Returns(FALSE, "package is not installed, and is not available in known package repositories")
  ELSE Returns(FALSE, "package is not installed, but is available in a package repository")

InitCheck ==
  /\ pc = "Check"
  /\ check \in {Ptr(c) : c \in CheckSpace}
  /\ result = Nil
  /\ opts = Nil /\ attempts = 0 /\ requests = 0 /\ pass = <<>> /\ err = ""
  /\ built = Nil /\ bytez = <<>> /\ file = Nil /\ annotated = <<>>
  /\ doc = Nil /\ plan = Nil
  /\ NoWrite /\ NoApply

PackageCheck ==
  /\ pc = "Check"
  /\ result' = Ptr(Check(check[1]))
  /\ pc' = "checked"
  /\ UNCHANGED <<opts, attempts, requests, pass, err, built, bytez, file, annotated,
                 doc, plan, scanVars, check, applyVars>>

SpecCheck == InitCheck /\ [][PackageCheck]_vars

\* ---- applyCmd.run (pkg/cli/apply.go)
\* cmd is the receiver, invoked the calls run has made so far (for
\* doValidate with the options it was given) and whether each returned
\* without error, network what
\* plan.NetworkConfigured() says of the plan Read returned, err the error
\* run returned ("" for nil).  The callees are outside: each of them
\* succeeds or fails.
CmdSpace ==
  [verbose : BOOLEAN, outputFormat : {"simple", "raw"}, skipPreFlight : BOOLEAN]

\* The options run hands to doValidate.
validateOpts(c) ==
  [planFile |-> "kismatic-cluster.yaml", verbose |-> c.verbose,
   outputFormat |-> c.outputFormat, skipPreFlight |-> c.skipPreFlight,
   generatedAssetsDir |-> "generated"]

InitApply ==
  /\ pc = "doValidate"
  /\ cmd \in {Ptr(c) : c \in CmdSpace}
  /\ invoked = <<>> /\ network = Nil
  /\ opts = Nil /\ attempts = 0 /\ requests = 0 /\ pass = <<>> /\ err = ""
  /\ built = Nil /\ bytez = <<>> /\ file = Nil /\ annotated = <<>>
  /\ doc = Nil /\ plan = Nil
  /\ NoWrite /\ NoCheck

\* A slip: the error of the call is dropped and run goes on.
CallIgnoringError(step, arg, ok, next, message) ==
  /\ invoked' = Append(invoked, [step |-> step, arg |-> arg, ok |-> ok])
  /\ pc' = next /\ err' = err

\* One call of run and the test of its error: on an error run returns it,
\* wrapped in message; otherwise it goes on to next.
Call(step, arg, ok, next, message) ==
  /\ invoked' = Append(invoked, [step |-> step, arg |-> arg, ok |-> ok])
  /\ IF ok THEN pc' = next /\ err' = err
     ELSE pc' = "failed" /\ err' = message

ApplyFrame ==
  UNCHANGED <<opts, attempts, requests, pass, built, bytez, file, annotated, doc,
              plan, scanVars, checkVars, cmd>>

DoValidate ==
  /\ pc = "doValidate"
  /\ \E ok \in BOOLEAN :
       Call("doValidate", validateOpts(cmd[1]), ok, "planner.Read",
            "error validating plan")
  /\ UNCHANGED network /\ ApplyFrame

\* c.planner.Read(); the plan it returns has its network configured or not.
PlannerRead ==
  /\ pc = "planner.Read"
  /\ \E ok \in BOOLEAN :
       /\ Call("planner.Read", Nil, ok, "GenerateCertificates",
               "error reading plan file")
       /\ IF ok THEN \E b \in BOOLEAN : network' = Ptr(b) ELSE network' = network
  /\ ApplyFrame

GenerateCertificates ==
  /\ pc = "GenerateCertificates"
  /\ \E ok \in BOOLEAN :
       Call("GenerateCertificates", Nil, ok, "GenerateKubeconfig", "error installing")
  /\ UNCHANGED network /\ ApplyFrame

GenerateKubeconfig ==
  /\ pc = "GenerateKubeconfig"
  /\ \E ok \in BOOLEAN :
       Call("GenerateKubeconfig", Nil, ok, "Install", "error generating kubeconfig file")
  /\ UNCHANGED network /\ ApplyFrame

\* c.executor.Install(plan), and the test of plan.NetworkConfigured() that
\* follows it.
Install ==
  /\ pc = "Install"
  /\ \E ok \in BOOLEAN :
       Call("Install", Nil, ok,
            IF network[1] THEN "RunSmokeTest" ELSE "generateDashboardAdminKubeconfig",
            "error installing")
  /\ UNCHANGED network /\ ApplyFrame

RunSmokeTest ==
  /\ pc = "RunSmokeTest"
  /\ \E ok \in BOOLEAN :
       Call("RunSmokeTest", Nil, ok, "generateDashboardAdminKubeconfig",
            "error running smoke test")
  /\ UNCHANGED network /\ ApplyFrame

\* generateDashboardAdminKubeconfig, whose error run returns as it is (here
\* the first it can return), and the return of nil after it.
GenerateDashboardAdminKubeconfig ==
  /\ pc = "generateDashboardAdminKubeconfig"
  /\ \E ok \in BOOLEAN :
       Call("generateDashboardAdminKubeconfig", Nil, ok, "installed",
            "error getting a list of tokens")
  /\ UNCHANGED network /\ ApplyFrame

NextApply ==
  \/ DoValidate
  \/ PlannerRead
  \/ GenerateCertificates
  \/ GenerateKubeconfig
  \/ Install
  \/ RunSmokeTest
  \/ GenerateDashboardAdminKubeconfig

SpecApply == InitApply /\ [][NextApply]_vars

Next ==
  \/ WritePlanTemplate
  \/ GeneratePassword
  \/ BuildPlan
  \/ Write
  \/ ReadFile
  \/ ReadDeprecatedFields
  \/ SetDefaults

Spec == Init /\ [][Next]_vars

\* The template command and the Read of its file, alone.
SpecTemplate == InitTemplate /\ [][Next]_vars

\* The Read of hand-edited and older files, alone.
NextRead == ReadDeprecatedFields \/ SetDefaults

SpecRead == InitRead /\ [][NextRead]_vars

\* ================================================================== claims

\* The scalar fields of a plan that setDefaults may write, by name; the
\* fields of an absent block read as unset.
CNIOf(p) == IF p.AddOns.CNI = Nil THEN ZeroCNI ELSE p.AddOns.CNI[1]
HeapsterOf(p) ==
  IF p.AddOns.HeapsterMonitoring = Nil THEN ZeroHeapsterMonitoring
  ELSE p.AddOns.HeapsterMonitoring[1]

StringFields(p) ==
  [CNIProvider |-> CNIOf(p).Provider,
   CalicoMode |-> CNIOf(p).Options.Calico.Mode,
   CalicoLogLevel |-> CNIOf(p).Options.Calico.LogLevel,
   DNSProvider |-> p.AddOns.DNS.Provider,
   HeapsterServiceType |-> HeapsterOf(p).Options.Heapster.ServiceType,
   HeapsterSink |-> HeapsterOf(p).Options.Heapster.Sink,
   InfluxDBPVCName |-> HeapsterOf(p).Options.InfluxDB.PVCName,
   LegacyInfluxDBPVCName |-> HeapsterOf(p).Options.InfluxDBPVCName,
   NetworkingType |-> p.Cluster.Networking.Type,
   CAExpiry |-> p.Cluster.Certificates.CAExpiry]

NumberFields(p) ==
  [CalicoWorkloadMTU |-> CNIOf(p).Options.Calico.WorkloadMTU,
   CalicoFelixInputMTU |-> CNIOf(p).Options.Calico.FelixInputMTU,
   HeapsterReplicas |-> HeapsterOf(p).Options.Heapster.Replicas,
   LegacyHeapsterReplicas |-> HeapsterOf(p).Options.HeapsterReplicas]

BlockFields(p) ==
  [CNI |-> p.AddOns.CNI, HeapsterMonitoring |-> p.AddOns.HeapsterMonitoring,
   Dashboard |-> p.AddOns.Dashboard]

\* Every field set in before carries the same value in after.
KeepsSetFields(before, after) ==
  /\ \A f \in DOMAIN StringFields(before) :
       StringFields(before)[f] # "" => StringFields(after)[f] = StringFields(before)[f]
  /\ \A f \in DOMAIN NumberFields(before) :
       NumberFields(before)[f] # 0 => NumberFields(after)[f] = NumberFields(before)[f]
  /\ \A f \in DOMAIN BlockFields(before) :
       BlockFields(before)[f] # Nil => BlockFields(after)[f] # Nil
  /\ before.AddOns.Dashboard # Nil => after.AddOns.Dashboard = before.AddOns.Dashboard

\* C1: setDefaults leaves every field that carries a set value as it is,
\* the structured heapster replicas and influxdb PVC name included when the
\* legacy flat fields are set.
C1_DefaultsKeepSetFields ==
  [][pc = "migrated" => KeepsSetFields(plan[1], plan'[1])]_vars

\* C2: within one Write no dotted path is given a comment block twice.
C2_AnnotatedOncePerPath ==
  \A i, j \in 1..Len(annotated) : annotated[i] = annotated[j] => i = j

ErrExhausted == "failed to generate alphanumeric password"
ErrGenerator == "error generating random password"

\* C4: the generator loop is bounded: while it runs, the candidates requested
\* so far are the failed attempts, at most 5; a candidate that passes on
\* attempt k is returned after exactly k requests, k in 1..6; when none
\* passes, the error comes after exactly 6 requests; and once it has
\* returned, no further candidate is requested.
C4_PasswordBound ==
  /\ requests <= 6
  /\ pc = "generate" => requests = attempts /\ attempts <= 5
  /\ (pc = "build" /\ requests > 0) =>
       /\ requests = attempts + 1
       /\ opts.AdminPassword = pass
  /\ (pc = "failed" /\ err = ErrExhausted) => requests = 6 /\ attempts = 5
  /\ pc # "generate" => ~ ENABLED GeneratePassword

C4_Witness == pc = "failed" /\ err = ErrExhausted /\ requests = 6

\* Letters and decimal digits only, and at least one of them.
IsAlphaNumeric(candidate) ==
  /\ Len(candidate) >= 1
  /\ \A i \in 1..Len(candidate) :
       candidate[i] \in LowerCase \cup UpperCase
                        \cup {"0", "1", "2", "3", "4", "5", "6", "7", "8", "9"}

\* C5: the candidate the generator handed back is accepted if and only if it
\* is non-empty and made only of ASCII letters and decimal digits.
C5_AcceptsAlphaNumeric ==
  (requests > 0 /\ err # ErrGenerator) =>
    ((pc = "build") <=> IsAlphaNumeric(pass))

\* The plan's list of a role: as many zero-valued nodes as were asked for.
GroupAsAsked(g, count) ==
  /\ g.ExpectedCount = count
  /\ Len(g.Nodes) = count
  /\ \A i \in 1..Len(g.Nodes) : g.Nodes[i] = [Host |-> "", IP |-> "", InternalIP |-> ""]

\* C6: the built plan has exactly the asked number of empty nodes in each
\* role, that number as each role's expected count, and exactly the asked
\* number of NFS volumes, each {host: "", path: "/"}.
C6_BuildListLengths ==
  built # Nil =>
    /\ GroupAsAsked(built[1].Etcd, opts.EtcdNodes)
    /\ GroupAsAsked(built[1].Master, opts.MasterNodes)
    /\ GroupAsAsked(built[1].Worker, opts.WorkerNodes)
    /\ GroupAsAsked(built[1].Ingress, opts.IngressNodes)
    /\ GroupAsAsked(built[1].Storage, opts.StorageNodes)
    /\ Len(built[1].NFS.Volumes) = opts.NFSVolumes
    /\ \A i \in 1..Len(built[1].NFS.Volumes) :
         built[1].NFS.Volumes[i] = [Host |-> "", Path |-> "/"]

C6_Witness ==
  /\ built # Nil
  /\ opts.EtcdNodes = 1 /\ opts.WorkerNodes = 1 /\ opts.IngressNodes = 0
  /\ opts.NFSVolumes = 2
  /\ Len(built[1].Etcd.Nodes) = 1 /\ Len(built[1].Worker.Nodes) = 1
  /\ Len(built[1].Ingress.Nodes) = 0 /\ Len(built[1].NFS.Volumes) = 2

\* C7: a built plan that is written and read back: neither Write nor Read
\* fails, the text deserializes to the built plan whatever comment and blank
\* lines Write put in, and Read returns a plan equal to the built one.
C7_RoundTrip ==
  built # Nil =>
    /\ pc # "failed"
    /\ pc \in {"written", "unmarshalled", "migrated", "read"} =>
         Content(file[1]) = bytez
    /\ pc = "unmarshalled" => plan = built
    /\ pc = "read" => plan = built

C7_Witness ==
  /\ pc = "read" /\ built # Nil /\ plan = built
  /\ Len(file[1]) > Len(bytez)
  /\ Len(built[1].NFS.Volumes) = 2

\* The defaulted fields of a plan.
DefaultedFields(p) ==
  [CNI |-> p.AddOns.CNI, DNS |-> p.AddOns.DNS,
   HeapsterMonitoring |-> p.AddOns.HeapsterMonitoring,
   CAExpiry |-> p.Cluster.Certificates.CAExpiry,
   Dashboard |-> p.AddOns.Dashboard]

\* No field of an older schema is set.
NoDeprecatedField(p) ==
  /\ p.Features = Nil
  /\ p.Cluster.AllowPackageInstallation = Nil
  /\ p.AddOns.DashboardDeprecated = Nil
  /\ p.DockerRegistry.Address = "" /\ p.DockerRegistry.Port = 0
  /\ p.Cluster.Networking.Type = ""
  /\ HeapsterOf(p).Options.HeapsterReplicas = 0
  /\ HeapsterOf(p).Options.InfluxDBPVCName = ""

\* C8: the built plan sets no deprecated field, carries in every defaulted
\* field the value the Read pipeline gives an empty document, and is left
\* unchanged by readDeprecatedFields and by setDefaults.
C8_BuilderResolverConverge ==
  built # Nil =>
    /\ NoDeprecatedField(built[1])
    /\ DefaultedFields(built[1]) =
         DefaultedFields(setDefaults(readDeprecatedFields(ZeroPlan)))
    /\ pc \in {"unmarshalled", "migrated", "read"} => plan = doc /\ doc = built

C8_Witness == pc = "read" /\ built # Nil /\ plan = doc /\ doc = built

\* C9: after Read of a document without CNI block the block is calico, info,
\* workload MTU 1500, felix input MTU 1440, and its mode is the legacy
\* networking type where that is set and "overlay" otherwise; a document
\* with a CNI block keeps its provider and mode whatever the legacy type.
C9_DefaultFillCNI ==
  pc = "read" =>
    IF doc[1].AddOns.CNI = Nil
    THEN plan[1].AddOns.CNI =
           Ptr([Provider |-> "calico",
                Options |-> [Calico |->
                  [Mode |-> IF doc[1].Cluster.Networking.Type # ""
                            THEN doc[1].Cluster.Networking.Type ELSE "overlay",
                   LogLevel |-> "info",
                   WorkloadMTU |-> 1500,
                   FelixInputMTU |-> 1440]]])
    ELSE /\ plan[1].AddOns.CNI # Nil
         /\ plan[1].AddOns.CNI[1].Provider = doc[1].AddOns.CNI[1].Provider
         /\ plan[1].AddOns.CNI[1].Options.Calico.Mode =
              doc[1].AddOns.CNI[1].Options.Calico.Mode

C9_Witness ==
  /\ pc = "read"
  /\ doc[1].AddOns.CNI = Nil /\ doc[1].Cluster.Networking.Type = "routed"
  /\ plan[1].AddOns.CNI[1].Options.Calico.Mode = "routed"
  /\ plan[1].AddOns.CNI[1].Options.Calico.FelixInputMTU = 1440

\* C10: the plan Read returns and the plan the builder returns have a CNI
\* block.
C10_CNIPresent ==
  /\ pc = "read" => plan # Nil /\ plan[1].AddOns.CNI # Nil
  /\ built # Nil => built[1].AddOns.CNI # Nil

C10_Witness ==
  /\ pc = "read" /\ built = Nil
  /\ doc[1].AddOns.CNI = Nil /\ plan[1].AddOns.CNI # Nil

\* ---- Write, line by line

\* The step is an iteration of Write's loop over a key line, and it did not
\* fail.
KeyLineStep ==
  /\ pc = "scan" /\ pc' = "scan" /\ pos' = pos + 1
  /\ yamlKeyRE(bytez[pos]) # Nil

\* The members of a sequence.
Range(seq) == {seq[k] : k \in 1..Len(seq)}

\* The comment block of a registered path above a line, as the claim has it:
\* a blank line, the registry's lines for the path in order, each "# "-marked
\* and indented as the line is, then the line itself.
BlockAbove(path, line) ==
  <<BlankLine>>
  \o [k \in 1..Len(commentMap[path]) |->
        Line(line.lead, <<"#", commentMap[path][k]>>, <<>>)]
  \o <<line>>

\* C11: the step that reaches the first key line whose dotted path is
\* registered appends to the file exactly one blank line, the registry's
\* comment lines for the path, each marked "# " and indented as the field
\* line is, and the unmodified field line, in this order.
C11_CommentPlacement ==
  [][(KeyLineStep /\ annotated = <<>> /\ scan'[1].s \in DOMAIN commentMap)
       => file'[1] = file[1] \o BlockAbove(scan'[1].s, bytez[pos])]_vars

\* cluster.admin_password has just been written under its comment block.
C11_Witness ==
  /\ pc = "scan"
  /\ annotated = << <<"cluster", "admin_password">> >>
  /\ file[1] = <<bytez[1]>> \o BlockAbove(<<"cluster", "admin_password">>, bytez[2])
  /\ file[1][3] = Line(2, <<"#", "This password is used to login to the Kubernetes Dashboard and can also be">>, <<>>)

\* The lines a step appended to the file.
Appended == SubSeq(file'[1], Len(file[1]) + 1, Len(file'[1]))

\* C12: a key line is given a comment block only if the dotted path of the
\* stack ending in its key is registered; a key line whose path is not
\* registered is written as it is, without a comment line, whatever its leaf
\* name; and a registered path that has had no comment block yet gets one,
\* whatever key lines of the same leaf name came before it.
C12_AnnotatedByFullPath ==
  [][KeyLineStep =>
       LET path == scan'[1].s
       IN /\ annotated' # annotated => path \in DOMAIN commentMap
          /\ path \notin DOMAIN commentMap =>
                /\ annotated' = annotated
                /\ \A k \in 1..Len(Appended) : ~ IsComment(Appended[k])
                /\ Appended[Len(Appended)] = bytez[pos]
          /\ (path \in DOMAIN commentMap /\ path \notin Range(annotated)) =>
                annotated' = Append(annotated, path)]_vars

\* "nodes" came up under cluster, where it is not registered, and then under
\* etcd, where it is: only the second has a comment block.
C12_Witness ==
  /\ pc = "returned"
  /\ bytez = <<Line(0, <<"cluster", ":">>, <<>>), Line(2, <<"nodes", ":">>, <<>>),
               Line(0, <<"etcd", ":">>, <<>>), Line(2, <<"nodes", ":">>, <<>>)>>
  /\ annotated = << <<"etcd">>, <<"etcd", "nodes">> >>

\* "provider" has a comment block under add_ons.cni and under add_ons.dns,
\* none under add_ons.dashboard.
C12_WitnessProviders ==
  /\ pc = "returned"
  /\ annotated = << <<"add_ons">>, <<"add_ons", "cni", "provider">>,
                    <<"add_ons", "dns", "provider">> >>

\* C13: Write leaves the registry as declared; every call starts its scan
\* with a map holding every entry of the registry; and the calls of Write on
\* one text leave the same lines in the file.
C13_WritesIndependent ==
  /\ registry = commentMap
  /\ (pc = "scan" /\ pos = 1) => scan[1].oneTimeComments = commentMap
  /\ \A j, k \in 1..Len(outputs) : outputs[j] = outputs[k]

\* A second write has ended; it gave etcd its comment block, as the first
\* did, and its own map has lost the entry while the registry has not.
C13_Witness ==
  /\ pc = "returned" /\ Len(outputs) = 2
  /\ outputs[1] = outputs[2]
  /\ <<"etcd">> \in Range(annotated)
  /\ <<"etcd">> \notin DOMAIN scan[1].oneTimeComments
  /\ <<"etcd">> \in DOMAIN registry

\* ---- PackageCheck

\* C14: with package installation disabled and no failing query, Check
\* returns true and no error, whether or not the package is installed or
\* available.
C14_NoOpWhenDisabled ==
  (pc = "checked" /\ check[1].InstallationDisabled
     /\ ~ check[1].installedErr /\ ~ check[1].availableErr)
    => result[1] = Returns(TRUE, "")

\* The depth Write gives a key line: the spaces of matched[0], halved.
DepthOf(line) == yamlKeyRE(line)[1].spaces \div 2

Underflows ==
  /\ pc = "scan" /\ pos <= Len(bytez)
  /\ yamlKeyRE(bytez[pos]) # Nil
  /\ DepthOf(bytez[pos]) <= scan[1].prevIndent
  /\ scan[1].prevIndent - DepthOf(bytez[pos]) + 1 > Len(scan[1].s)

\* C16: at a line that pops the empty stack Write returns the error and
\* releases the file handle; what was in the file stays, neither that line
\* nor a later one is added (only the blank line of the dedent), and once
\* Write has failed the file is left as it is.
C16_UnderflowFatal ==
  [][/\ Underflows =>
          /\ pc' = "failed" /\ err' = "Empty Stack" /\ handle' = "closed"
          /\ SubSeq(file'[1], 1, Len(file[1])) = file[1]
          /\ \A k \in 1..Len(Appended) : Appended[k] = BlankLine
          /\ outputs' = Append(outputs, [out |-> file'[1], failed |-> TRUE])
     /\ pc = "failed" => file' = file /\ handle' = "closed"]_vars

\* Write has failed with lines of the text still to come and lines already
\* in the file.
C16_Witness ==
  /\ pc = "failed" /\ err = "Empty Stack" /\ handle = "closed"
  /\ pos <= Len(bytez)
  /\ Len(file[1]) >= 3
  /\ file[1][1] = bytez[1]

\* How many of the lines are blank.
Blanks(lines) == Cardinality({k \in 1..Len(lines) : lines[k] = BlankLine})

\* C17: when the marshalled text has no blank line, the file never has two
\* blank lines in a row; the step at a key line that dedents writes exactly
\* one blank line, and writes it first, however many levels it leaves; and
\* the step that writes a comment block writes exactly one blank line, right
\* above the block, also when the line dedents.
C17_BlankSeparatorCollapse ==
  [][(pc = "scan" /\ BlankLine \notin Range(bytez)) =>
       /\ \A k \in 1..(Len(file'[1]) - 1) :
            ~ (file'[1][k] = BlankLine /\ file'[1][k + 1] = BlankLine)
       /\ (KeyLineStep /\ DepthOf(bytez[pos]) < scan[1].prevIndent) =>
            Blanks(Appended) = 1 /\ Appended[1] = BlankLine
       /\ (KeyLineStep /\ annotated' # annotated) =>
            Blanks(Appended) = 1 /\ Appended[1] = BlankLine]_vars

\* etcd was written under its comment block after a key two levels down:
\* one blank line above the block, and none above that.
C17_Witness ==
  /\ pc = "returned"
  /\ bytez = <<Line(0, <<"cluster", ":">>, <<>>), Line(2, <<"networking", ":">>, <<>>),
               Line(4, <<"pod_cidr_block", ":">>, <<>>), Line(0, <<"etcd", ":">>, <<>>)>>
  /\ LET block == BlockAbove(<<"etcd">>, bytez[4])
         n == Len(file[1]) - Len(block)
     IN /\ SubSeq(file[1], n + 1, Len(file[1])) = block
        /\ file[1][n] = bytez[3]

\* ---- Read: dashboard, registry, heapster

\* C18: after Read the dashboard block is present and its disable flag is
\* the document's own where the document had a dashboard block, the
\* deprecated location's where only that was present, and false where
\* neither was.
C18_DashboardRule ==
  pc = "read" =>
    /\ plan[1].AddOns.Dashboard # Nil
    /\ plan[1].AddOns.Dashboard[1].Disable =
         (IF doc[1].AddOns.Dashboard # Nil
          THEN doc[1].AddOns.Dashboard[1].Disable
          ELSE IF doc[1].AddOns.DashboardDeprecated # Nil
          THEN doc[1].AddOns.DashboardDeprecated[1].Disable
          ELSE FALSE)

\* The deprecated location alone was present and said disabled: the default
\* block did not mask it.
C18_Witness ==
  /\ pc = "read"
  /\ doc[1].AddOns.Dashboard = Nil
  /\ doc[1].AddOns.DashboardDeprecated = Ptr([Disable |-> TRUE])
  /\ plan[1].AddOns.Dashboard = Ptr([Disable |-> TRUE])

\* The current block was present and enabled, the deprecated one disabled.
C18_WitnessCurrent ==
  /\ pc = "read"
  /\ doc[1].AddOns.Dashboard = Ptr([Disable |-> FALSE])
  /\ doc[1].AddOns.DashboardDeprecated = Ptr([Disable |-> TRUE])
  /\ plan[1].AddOns.Dashboard = Ptr([Disable |-> FALSE])

\* C19: after readDeprecatedFields a server that was set is unchanged; an
\* empty server with both legacy address and port given is
\* "<address>:<port>"; and the legacy address and port are as they were.
C19_RegistryMigration ==
  pc = "migrated" =>
    LET before == doc[1].DockerRegistry
        after == plan[1].DockerRegistry
    IN /\ before.Server # <<>> => after.Server = before.Server
       /\ (before.Server = <<>> /\ before.Address # "" /\ before.Port # 0) =>
            after.Server = <<before.Address, before.Port>>
       /\ after.Address = before.Address /\ after.Port = before.Port

C19_Witness ==
  /\ pc = "migrated"
  /\ doc[1].DockerRegistry = [Server |-> <<>>, Address |-> "10.0.0.9", Port |-> 8443]
  /\ plan[1].DockerRegistry =
       [Server |-> <<"10.0.0.9", 8443>>, Address |-> "10.0.0.9", Port |-> 8443]

\* A server that was set stays, with the legacy pair given too.
C19_WitnessKept ==
  /\ pc = "migrated"
  /\ doc[1].DockerRegistry =
       [Server |-> <<"registry.local", 5000>>, Address |-> "10.0.0.9", Port |-> 8443]
  /\ plan[1].DockerRegistry = doc[1].DockerRegistry

C20_WitnessAbsent ==
  /\ pc = "read"
  /\ doc[1].AddOns.HeapsterMonitoring = Nil
  /\ plan[1].AddOns.HeapsterMonitoring[1].Options.Heapster.Replicas = 2

\* ---- WritePlanTemplate

\* C21: WritePlanTemplate with a password given goes on to build the plan
\* without a call of the generator; the plan it builds carries the password
\* of the options, which is the generated one when the generator ran; Write
\* is called with that plan, never with an empty password, and only while
\* no file has been written, so at most once; and when the generator fails
\* no text is marshalled and no file written.
C21_NeverWritesWithoutPassword ==
  [][/\ (pc = "WritePlanTemplate" /\ opts.AdminPassword # <<>>) =>
          pc' = "build" /\ requests' = 0 /\ opts' = opts
     /\ (pc = "WritePlanTemplate" /\ opts.AdminPassword = <<>>) => pc' = "generate"
     /\ pc = "build" =>
          /\ opts.AdminPassword # <<>>
          /\ requests > 0 => opts.AdminPassword = pass
          /\ requests = 0 => opts.AdminPassword = GivenPassword
          /\ plan'[1].Cluster.AdminPassword = opts.AdminPassword
     /\ pc = "write" =>
          /\ file = Nil /\ bytez = <<>>
          /\ plan = built
          /\ plan[1].Cluster.AdminPassword = opts.AdminPassword
          /\ plan[1].Cluster.AdminPassword # <<>>
          /\ pc' # "write"
     /\ pc' = "write" => pc = "build"
     /\ (pc = "generate" /\ pc' = "failed") =>
          /\ err' \in {ErrExhausted, ErrGenerator}
          /\ file' = Nil /\ bytez' = <<>> /\ built' = Nil
     /\ pc = "failed" => pc' = "failed"]_vars

\* The generator has failed and nothing was written.
C21_Witness ==
  /\ pc = "failed" /\ err = ErrGenerator /\ requests = 2
  /\ opts.AdminPassword = <<>> /\ file = Nil /\ built = Nil

\* A plan with a generated password was written.
C21_WitnessGenerated ==
  /\ pc = "written" /\ file # Nil
  /\ opts.AdminPassword = <<"7">>
  /\ built[1].Cluster.AdminPassword = <<"7">>

\* A plan with the given password was written.
C21_WitnessGiven ==
  /\ pc = "written" /\ file # Nil
  /\ built[1].Cluster.AdminPassword = GivenPassword

\* ---- applyCmd.run

\* The calls of a run that goes through, in order; the smoke test is among
\* them when the plan's network is configured.
StepsInOrder(configured) ==
  <<"doValidate", "planner.Read", "GenerateCertificates", "GenerateKubeconfig",
    "Install">>
  \o (IF configured THEN <<"RunSmokeTest">> ELSE <<>>)
  \o <<"generateDashboardAdminKubeconfig">>

\* The names of the calls made so far.
StepsInvoked == [k \in 1..Len(invoked) |-> invoked[k].step]

\* C22: the calls run has made are the first ones of the fixed order
\* validate, Read, certificates, kubeconfig, Install, smoke test, dashboard
\* kubeconfig, the smoke test left out exactly when the plan's network is
\* not configured; every call but the last one made has succeeded; run has
\* returned an error exactly when the last call failed, and then it makes
\* no further call; and it reports success only after all the calls of the
\* order, every one of them a success.
C22_ApplyStepOrder ==
  /\ \E b \in BOOLEAN :
       /\ network # Nil => b = network[1]
       /\ Len(invoked) <= Len(StepsInOrder(b))
       /\ StepsInvoked = SubSeq(StepsInOrder(b), 1, Len(invoked))
  /\ \A k \in 1..(Len(invoked) - 1) : invoked[k].ok
  /\ (pc = "failed") <=> (invoked # <<>> /\ ~ invoked[Len(invoked)].ok)
  /\ (pc = "failed") <=> (err # "")
  /\ pc = "failed" => ~ ENABLED NextApply
  /\ pc = "installed" =>
       /\ StepsInvoked = StepsInOrder(network[1])
       /\ \A k \in 1..Len(invoked) : invoked[k].ok
       /\ ~ ENABLED NextApply
  /\ (pc \notin {"failed", "installed"}) => pc = StepsInOrder(
         IF network = Nil THEN TRUE ELSE network[1])[Len(invoked) + 1]

\* The run went through without a smoke test: the network is not configured.
C22_Witness ==
  /\ pc = "installed" /\ err = ""
  /\ network = Ptr(FALSE)
  /\ Len(invoked) = 6
  /\ invoked[5].step = "Install" /\ invoked[6].step = "generateDashboardAdminKubeconfig"

\* Read failed: run has returned its error and Install was not called.
C22_WitnessReadFailed ==
  /\ pc = "failed" /\ err = "error reading plan file"
  /\ StepsInvoked = <<"doValidate", "planner.Read">>

\* The smoke test failed after Install.
C22_WitnessSmokeFailed ==
  /\ pc = "failed" /\ err = "error running smoke test"
  /\ network = Ptr(TRUE) /\ Len(invoked) = 6

====
